---- MODULE Spec2Model ----
(***************************************************************************)
(* The playback engine of ramp: the player thread of player/mod.rs, its    *)
(* command channel, the published facade and the audio callback that       *)
(* create_playback hands to the output stream.                             *)
(*                                                                         *)
(* The player thread owns `status` and `queue`.  Producers (the holder of  *)
(* the Sender returned by Player::run, the media-control handler, and the  *)
(* audio callback) only append commands to the channel.  The callback      *)
(* shares two cells with the player: the pause flag and the played         *)
(* duration, the latter behind a RwLock the callback write-holds for a     *)
(* whole invocation.                                                       *)
(*                                                                         *)
(* Beside the player: the two media-control handlers of the source         *)
(* (MediaSpec) and the gain factor Song::load computes (GainSpec).         *)
(***************************************************************************)
EXTENDS Integers, Sequences, FiniteSets, TLC

\* Commands the Sender holder and the media-control handler may send in total.
MaxSends == 3
\* Skip commands of the callback that may wait in the channel at once.
MaxSkips == 2

\* Samples the device asks for per callback (dest.len()).
DestLen == 2
\* Largest whole number of decibels a track-gain tag carries.
MaxDb == 20

VARIABLES
    status,      \* Player.status
    queue,       \* Player.queue: entries [path, id], front first
    stream,      \* the cells and the callback state of the output stream
    nextSid,     \* number the next stream gets
    chan,        \* the mpsc channel: commands sent and not yet received
    actorPc,     \* "recv" | "set_playback" | "dead" (the thread panicked)
    facade,      \* the published PlayerFacade
    deviceOk,    \* whether the host has a default output device that builds
    sends,       \* commands sent so far by the Sender holder and media keys
    nextId,      \* identity the next Enqueue command gets
    sent,        \* history: per producer, the commands it sent, in order
    applied,     \* history: the commands the player thread received, in order
    lastErr,     \* history: the Err of the last handler ("" when Ok)
    peakStreams, \* history: most Stream values alive at once so far
    attempts,    \* history: ids of the entries play() popped, in order
    failed,      \* history: ids of the popped entries that could not start
    started,     \* history: ids of the entries that became current, in order
    removed,     \* history: ids of the entries Dequeue or Clear removed
    mediaPc,     \* the handler main.rs attaches: "attached" | "panicked"
    tag,         \* the ReplayGain track-gain tag of the file Song::load reads
    gain_factor, \* Song.gain_factor in 1/GainScale, 0 before the load
    format_reader, \* the packets of an opened file and how many were read
    pulled,      \* what the last call of the decoder closure returned
    mutexPlayer, \* the Player of player.rs behind its Mutex
    cache,       \* Cache.root of cache.rs: a map from names to entries
    cacheLog     \* history: the last call on the cache and its result

vars == <<status, queue, stream, nextSid, chan, actorPc, facade, deviceOk,
          sends, nextId, sent, applied, lastErr, peakStreams, attempts,
          failed, started, removed, mediaPc, tag, gain_factor, format_reader,
          pulled, mutexPlayer, cache, cacheLog>>

----------------------------------------------------------------------------
\* The library and the files behind it.

\* Paths a producer may enqueue: "a" and "b" are songs of the library, "x"
\* is a path that cannot be played.
Paths == {"a", "b", "x"}

\* What the player finds behind "x" when it tries to start it: no cache
\* entry, a Directory entry, or a File entry whose file does not load.
FailModes == {"None", "Directory", "Load"}

\* Cache::get followed by the Option: a File entry, a Directory entry, or
\* no entry at all.
CacheGet(path, how) ==
    IF path = "x" /\ how # "Load" THEN how ELSE "File"

\* LoadedSong::load: "Ok", or "Err" (the file does not open, no format is
\* probed, no audio track, no decoder, no sample rate, no channels).
LoadedSong_load(path, how) ==
    IF path = "x" THEN "Err" ELSE "Ok"

\* The samples a packet of the selected track of a loadable file decodes
\* to.
PacketSamples(path) == IF path = "a" THEN 3 ELSE 0

\* The track LoadedSong::load selects, and another track of the container.
TrackId == 1
OtherTrack == 2

\* The container of a file, packet by packet: "a" holds one packet of the
\* selected track, "b" one packet of another track and nothing to play.
\* Samples are numbered in the order the decoder produces them.
Container(path) ==
    CASE path = "a" ->
           <<[track |-> TrackId,
              samples |-> [i \in 1..PacketSamples(path) |-> i]]>>
      [] path = "b" -> <<[track |-> OtherTrack, samples |-> <<7>>]>>
      [] OTHER -> <<>>

\* Packets the container of a file holds.
Packets(path) == Len(Container(path))

\* The gain factor Song::load computed for a file.
SongGain(path) == IF path = "a" THEN 2 ELSE 1

\* What the decoder closure returns for a packet: the samples, or an Err
\* (the packet does not decode, or the reader fails other than by the end
\* of the stream).
DecodeResults == {"Ok", "Err"}

\* No call of the decoder closure yet.
NotPulled ==
    [err |-> FALSE, some |-> FALSE, chunk |-> <<>>, eos |-> FALSE, pos |-> 0]

\* A decoder closure that takes a packet of another track for the end of
\* the stream.
decoder_ends_at_other_track(packets, pos, dec) ==
    IF pos >= Len(packets)
    THEN [err |-> FALSE, some |-> FALSE, chunk |-> <<>>, eos |-> TRUE,
          pos |-> pos]
    ELSE IF dec = "Err"
         THEN [err |-> TRUE, some |-> FALSE, chunk |-> <<>>, eos |-> FALSE,
               pos |-> pos + 1]
         ELSE IF packets[pos + 1].track = TrackId
              THEN [err |-> FALSE, some |-> TRUE,
                    chunk |-> packets[pos + 1].samples,
                    eos |-> FALSE, pos |-> pos + 1]
              ELSE [err |-> FALSE, some |-> FALSE, chunk |-> <<>>,
                    eos |-> TRUE, pos |-> pos + 1]

\* The decoder closure called with pos packets already read: it reads one
\* packet.  A packet of the selected track gives (Some(samples), false),
\* a packet of another track (None, false), the end of the container
\* (None, true) and reads nothing; a read or a decode that fails gives Err.
decoder(packets, pos, dec) ==
    IF pos >= Len(packets)
    THEN [err |-> FALSE, some |-> FALSE, chunk |-> <<>>, eos |-> TRUE,
          pos |-> pos]
    ELSE IF dec = "Err"
         THEN [err |-> TRUE, some |-> FALSE, chunk |-> <<>>, eos |-> FALSE,
               pos |-> pos + 1]
         ELSE IF packets[pos + 1].track = TrackId
              THEN [err |-> FALSE, some |-> TRUE,
                    chunk |-> packets[pos + 1].samples,
                    eos |-> FALSE, pos |-> pos + 1]
              ELSE [err |-> FALSE, some |-> FALSE, chunk |-> <<>>,
                    eos |-> FALSE, pos |-> pos + 1]

----------------------------------------------------------------------------
\* Values.

Stopped == [kind |-> "Stopped", song |-> "", eid |-> 0, sid |-> 0]

PlayingOrPaused(path, eid, sid) ==
    [kind |-> "PlayingOrPaused", song |-> path, eid |-> eid, sid |-> sid]

\* The cells of a stream and the state of its callback: the pause flag,
\* the played duration (in samples), the decoder's position (packets
\* pulled), the sample backlog, where the callback is, byte_count, whether
\* the decoder has reported the end of the stream or an error, how many
\* samples of dest the last invocation set to 0.0, the backlog that was
\* still unwritten when the callback sent Skip, and every sample the
\* unpaused callback has written to dest so far, in order.
\* No stream: the cells of a stopped player.
NoStream ==
    [sid |-> 0, paused |-> FALSE, dur |-> 0, pos |-> 0, buf |-> <<>>,
     pc |-> "idle", bc |-> 0, eos |-> FALSE, derr |-> FALSE, sil |-> 0,
     late |-> 0, out |-> <<>>]

\* The cells create_playback makes: pause flag false, duration zero, an
\* empty sample buffer, the decoder at the first packet.
NewStream(sid) ==
    [sid |-> sid, paused |-> FALSE, dur |-> 0, pos |-> 0, buf |-> <<>>,
     pc |-> "idle", bc |-> 0, eos |-> FALSE, derr |-> FALSE, sil |-> 0,
     late |-> 0, out |-> <<>>]

Command(kind, path, index, id, from) ==
    [kind |-> kind, path |-> path, index |-> index, id |-> id, from |-> from]

Max(a, b) == IF a >= b THEN a ELSE b
Min(a, b) == IF a <= b THEN a ELSE b

\* VecDeque::remove(index), index counted from 0.
RemoveAt(q, index) == SubSeq(q, 1, index) \o SubSeq(q, index + 2, Len(q))

QueuePaths(q) == [k \in 1..Len(q) |-> q[k].path]
QueueIds(q) == {q[k].id : k \in 1..Len(q)}

----------------------------------------------------------------------------
\* The methods of Player, as functions of the player's fields.  A method
\* takes and returns a record with the fields
\*   status, queue, stream, nsid  the player's fields and the stream's cells
\*   dev                          whether the output device builds
\*   how                          what is behind the unplayable path
\*   err                          "" for Ok(()), else the error returned
\*   live, peak                   Stream values alive now / most at once
\*   dropped                      whether a Stream value was destroyed
\*   tried                        ids of the entries popped

Fail(r, msg) == [r EXCEPT !.err = msg]

\* Assigning self.status destroys the value it held.
SetStatus(r, st, strm) ==
    [r EXCEPT !.status = st,
              !.stream = strm,
              !.live = IF r.status.kind = "PlayingOrPaused" THEN @ - 1 ELSE @,
              !.dropped = @ \/ r.status.kind = "PlayingOrPaused"]

\* create_playback() that hands out the cells of the stream before.
create_playback_same_cells(r) ==
    IF ~r.dev
    THEN Fail(r, "Failed to get default output device")
    ELSE [r EXCEPT !.made = NewStream(Max(1, r.nsid - 1)),
                   !.nsid = @ + 1,
                   !.live = @ + 1,
                   !.peak = Max(@, r.live + 1)]

create_playback(r) ==
    IF ~r.dev
    THEN Fail(r, "Failed to get default output device")
    ELSE [r EXCEPT !.made = NewStream(r.nsid),
                   !.nsid = @ + 1,
                   !.live = @ + 1,
                   !.peak = Max(@, r.live + 1)]

\* play() without the test that the player is Stopped: it starts the
\* front entry whatever the status is.
play_any_status(r0) ==
    IF r0.queue # <<>>
    THEN LET e == Head(r0.queue)
             r2 == [r0 EXCEPT !.queue = Tail(@), !.tried = Append(@, e.id)]
             r3 == create_playback(r2)
         IN  IF r3.err # ""
             THEN r3
             ELSE SetStatus(r3, PlayingOrPaused(e.path, e.id, r3.made.sid),
                            r3.made)
    ELSE r0

\* play() that looks at the front entry and pops it only once the stream
\* is built, so that an entry that fails stays queued.
play_keeps_failed(r0) ==
    LET r1 == IF r0.status.kind = "PlayingOrPaused"
              THEN [r0 EXCEPT !.stream.paused = FALSE]
              ELSE r0
    IN  IF r1.status.kind = "Stopped" /\ r1.queue # <<>>
        THEN LET e == Head(r1.queue)
                 r2 == [r1 EXCEPT !.tried = Append(@, e.id)]
             IN  IF CacheGet(e.path, r2.how) # "File"
                    \/ LoadedSong_load(e.path, r2.how) # "Ok"
                 THEN Fail(r2, "Failed to load song")
                 ELSE LET r3 == create_playback(r2)
                      IN  IF r3.err # ""
                          THEN r3
                          ELSE SetStatus([r3 EXCEPT !.queue = Tail(@)],
                                 PlayingOrPaused(e.path, e.id, r3.made.sid),
                                 r3.made)
        ELSE r1

\* play() that starts the played duration over when it resumes.
play_resets_duration(r0) ==
    LET r1 == IF r0.status.kind = "PlayingOrPaused"
              THEN [r0 EXCEPT !.stream.paused = FALSE, !.stream.dur = 0]
              ELSE r0
    IN  IF r1.status.kind = "Stopped" /\ r1.queue # <<>>
        THEN LET e == Head(r1.queue)
                 r2 == [r1 EXCEPT !.queue = Tail(@),
                                  !.tried = Append(@, e.id)]
             IN  CASE CacheGet(e.path, r2.how) = "None" ->
                        Fail(r2, "Song not found in cache")
                   [] CacheGet(e.path, r2.how) = "Directory" ->
                        Fail(r2, "Song is not a file")
                   [] LoadedSong_load(e.path, r2.how) # "Ok" ->
                        Fail(r2, "Failed to load song")
                   [] OTHER ->
                        LET r3 == create_playback(r2)
                        IN  IF r3.err # ""
                            THEN r3
                            ELSE SetStatus(r3,
                                   PlayingOrPaused(e.path, e.id, r3.made.sid),
                                   r3.made)
        ELSE r1


play(r0) ==
    LET r1 == IF r0.status.kind = "PlayingOrPaused"
              THEN [r0 EXCEPT !.stream.paused = FALSE]
              ELSE r0
    IN  IF r1.status.kind = "Stopped" /\ r1.queue # <<>>
        THEN LET e == Head(r1.queue)
                 r2 == [r1 EXCEPT !.queue = Tail(@),
                                  !.tried = Append(@, e.id)]
             IN  CASE CacheGet(e.path, r2.how) = "None" ->
                        Fail(r2, "Song not found in cache")
                   [] CacheGet(e.path, r2.how) = "Directory" ->
                        Fail(r2, "Song is not a file")
                   [] LoadedSong_load(e.path, r2.how) # "Ok" ->
                        Fail(r2, "Failed to load song")
                   [] OTHER ->
                        LET r3 == create_playback(r2)
                        IN  IF r3.err # ""
                            THEN r3
                            ELSE SetStatus(r3,
                                   PlayingOrPaused(e.path, e.id, r3.made.sid),
                                   r3.made)
        ELSE r1

\* pause() that rewinds the played duration.
pause_rewinds(r) ==
    IF r.status.kind = "PlayingOrPaused"
    THEN [r EXCEPT !.stream.paused = TRUE, !.stream.dur = 0]
    ELSE r

\* pause() that flips the pause flag.
pause_toggles(r) ==
    IF r.status.kind = "PlayingOrPaused"
    THEN [r EXCEPT !.stream.paused = ~@]
    ELSE r

pause(r) ==
    IF r.status.kind = "PlayingOrPaused"
    THEN [r EXCEPT !.stream.paused = TRUE]
    ELSE r

\* play_pause() that starts the front entry when the player is Stopped.
play_pause_starts(r) ==
    IF r.status.kind = "PlayingOrPaused"
    THEN [r EXCEPT !.stream.paused = ~@]
    ELSE play(r)

\* play_pause() that always pauses.
play_pause_pauses(r) ==
    IF r.status.kind = "PlayingOrPaused"
    THEN [r EXCEPT !.stream.paused = TRUE]
    ELSE r

play_pause(r) ==
    IF r.status.kind = "PlayingOrPaused"
    THEN [r EXCEPT !.stream.paused = ~@]
    ELSE r

\* stop() that empties the queue as well.
stop_clears(r) == SetStatus([r EXCEPT !.queue = <<>>], Stopped, NoStream)

stop(r) == SetStatus(r, Stopped, NoStream)

\* skip() that does not stop first.
skip_without_stop(r) == play(r)

skip(r) == play(stop(r))

\* enqueue() that starts the front entry at once, playing or not.
enqueue_interrupts(r, path, id) ==
    skip([r EXCEPT !.queue = Append(@, [path |-> path, id |-> id])])

\* enqueue() that only appends.
enqueue_only_pushes(r, path, id) ==
    [r EXCEPT !.queue = Append(@, [path |-> path, id |-> id])]

enqueue(r, path, id) ==
    LET r1 == [r EXCEPT !.queue = Append(@, [path |-> path, id |-> id])]
    IN  IF r1.status.kind = "Stopped" THEN play(r1) ELSE r1

\* dequeue() that removes the last entry when the index is past the end.
dequeue_clamps(r, index) ==
    IF r.queue = <<>>
    THEN Fail(r, "No song at index")
    ELSE [r EXCEPT !.queue = RemoveAt(@, Min(index, Len(r.queue) - 1))]

\* dequeue() that removes the last entry, whatever the index in range.
dequeue_pops_back(r, index) ==
    IF index < Len(r.queue)
    THEN [r EXCEPT !.queue = SubSeq(@, 1, Len(@) - 1)]
    ELSE Fail(r, "No song at index")

dequeue(r, index) ==
    IF index < Len(r.queue)
    THEN [r EXCEPT !.queue = RemoveAt(@, index)]
    ELSE Fail(r, "No song at index")

\* clear() that empties the queue and lets the current song play on.
clear_keeps_playing(r) == [r EXCEPT !.queue = <<>>]

clear(r) == stop([r EXCEPT !.queue = <<>>])

\* The match of the command loop.
Handle(r, c) ==
    CASE c.kind = "Play" -> play(r)
      [] c.kind = "Pause" -> pause(r)
      [] c.kind = "PlayPause" -> play_pause(r)
      [] c.kind = "Skip" -> skip(r)
      [] c.kind = "Stop" -> stop(r)
      [] c.kind = "Clear" -> clear(r)
      [] c.kind = "Enqueue" -> enqueue(r, c.path, c.id)
      [] c.kind = "Dequeue" -> dequeue(r, c.index)

\* The player's fields as a method sees them.
Fields(st, q, strm, nsid, dev, how) ==
    [status |-> st, queue |-> q, stream |-> strm, nsid |-> nsid, dev |-> dev,
     how |-> how, err |-> "", live |-> IF st.kind = "PlayingOrPaused" THEN 1 ELSE 0,
     peak |-> 0, dropped |-> FALSE, tried |-> <<>>, made |-> NoStream]

Me(how) == Fields(status, queue, stream, nextSid, deviceOk, how)

\* A facade built from the status just computed and the queue as it was
\* before the command.
from_player_torn(st, q) ==
    [status |-> [kind |-> st.kind, song |-> st.song, sid |-> st.sid],
     queue |-> QueuePaths(queue)]

\* PlayerFacade::from_player.  The facade shares the stream's cells, so it
\* names the stream they belong to.
from_player(st, q) ==
    [status |-> [kind |-> st.kind, song |-> st.song, sid |-> st.sid],
     queue |-> QueuePaths(q)]

----------------------------------------------------------------------------
\* Song::load: the gain factor from the ReplayGain track-gain tag.  A
\* string is a sequence of characters; an f32 is a fixed-point number.

\* Gain factors are counted in 1/GainScale, decibels in tenths.
GainScale == 10000
\* 10^(1/20) and 10^(1/200) in 1/GainScale.
Root20 == 11220
Root200 == 10116

DigitChars == <<"0", "1", "2", "3", "4", "5", "6", "7", "8", "9">>
IsDigit(c) == \E d \in 0..9 : DigitChars[d + 1] = c
DigitOf(c) == CHOOSE d \in 0..9 : DigitChars[d + 1] = c

\* The value of the tag in standard_tags: none, a Value::String, or a
\* Value of another kind.
NoTag == [kind |-> "None", s |-> <<>>]
StringTag(s) == [kind |-> "String", s |-> s]
OtherTag == [kind |-> "Other", s |-> <<>>]

\* str::strip_suffix followed by unwrap_or(s).
strip_suffix(s, suffix) ==
    IF Len(s) >= Len(suffix)
       /\ SubSeq(s, Len(s) - Len(suffix) + 1, Len(s)) = suffix
    THEN SubSeq(s, 1, Len(s) - Len(suffix))
    ELSE s

\* The index after the digits of s that start at index i.
RECURSIVE DigitsEnd(_, _)
DigitsEnd(s, i) ==
    IF i <= Len(s) /\ IsDigit(s[i]) THEN DigitsEnd(s, i + 1) ELSE i

\* The number a string of digits writes.
RECURSIVE Natural(_)
Natural(d) ==
    IF d = <<>> THEN 0
    ELSE 10 * Natural(SubSeq(d, 1, Len(d) - 1)) + DigitOf(d[Len(d)])

\* str::parse::<f32> for decimal numbers without exponent: an optional
\* sign, digits, optionally a point and digits, one digit at least and
\* nothing else.  The value is kept to tenths.
parse_f32(s) ==
    LET i0 == IF s # <<>> /\ s[1] \in {"+", "-"} THEN 2 ELSE 1
        i1 == DigitsEnd(s, i0)
        dot == i1 <= Len(s) /\ s[i1] = "."
        i2 == IF dot THEN DigitsEnd(s, i1 + 1) ELSE i1
        ip == SubSeq(s, i0, i1 - 1)
        fp == IF dot THEN SubSeq(s, i1 + 1, i2 - 1) ELSE <<>>
        mag == 10 * Natural(ip) + (IF fp = <<>> THEN 0 ELSE DigitOf(fp[1]))
    IN  IF i2 = Len(s) + 1 /\ Len(ip) + Len(fp) > 0
        THEN [ok |-> TRUE, tenths |-> IF s[1] = "-" THEN 0 - mag ELSE mag]
        ELSE [ok |-> FALSE, tenths |-> 0]

\* v times f^n and v over f^n, rounded to 1/GainScale at every step.
RECURSIVE MulPow(_, _, _)
MulPow(v, f, n) ==
    IF n = 0 THEN v
    ELSE MulPow((v * f + GainScale \div 2) \div GainScale, f, n - 1)

RECURSIVE DivPow(_, _, _)
DivPow(v, f, n) ==
    IF n = 0 THEN v
    ELSE DivPow((v * GainScale + f \div 2) \div f, f, n - 1)

\* 10_f32.powf(e) for e = e200/200.
powf10(e200) ==
    LET q == (IF e200 >= 0 THEN e200 ELSE 0 - e200) \div 10
        r == (IF e200 >= 0 THEN e200 ELSE 0 - e200) % 10
    IN  IF e200 >= 0
        THEN MulPow(MulPow(GainScale, Root20, q), Root200, r)
        ELSE DivPow(DivPow(GainScale, Root20, q), Root200, r)

\* x / d for x in tenths, in 1/200.
Over(tenths, d) == (20 * tenths) \div d

\* The replay gain that parses the tag as it is written, unit and all.
replay_gain_keeps_suffix(t) ==
    IF t.kind = "String" /\ parse_f32(t.s).ok
    THEN powf10(Over(parse_f32(t.s).tenths, 20))
    ELSE GainScale

\* The replay gain that falls back to one half.
replay_gain_defaults_half(t) ==
    IF t.kind = "String" /\ parse_f32(strip_suffix(t.s, <<" ", "d", "B">>)).ok
    THEN powf10(Over(parse_f32(strip_suffix(t.s, <<" ", "d", "B">>)).tenths,
                     20))
    ELSE GainScale \div 2

\* replay_gain of Song::load: 10^(x/20) for the number x of the tag, 1.0
\* when the tag is missing, is no string or does not parse.
replay_gain(t) ==
    IF t.kind = "String" /\ parse_f32(strip_suffix(t.s, <<" ", "d", "B">>)).ok
    THEN powf10(Over(parse_f32(strip_suffix(t.s, <<" ", "d", "B">>)).tenths,
                     20))
    ELSE GainScale

\* The decimal digits of a natural number.
RECURSIVE Decimal(_)
Decimal(n) ==
    IF n < 10 THEN <<DigitChars[n + 1]>>
    ELSE Decimal(n \div 10) \o <<DigitChars[(n % 10) + 1]>>

\* Track-gain tags as taggers write them: sign, whole decibels, a point
\* and the tenths, with or without the unit.
Signs == {<<>>, <<"-">>, <<"+">>}
Units == {<<>>, <<" ", "d", "B">>}
GainText(sign, whole, tenth, unit) ==
    sign \o Decimal(whole) \o <<".">> \o Decimal(tenth) \o unit

\* The tags a file may carry: the well-formed ones, some that do not
\* parse, a value that is no string, and no tag.
Tags ==
    {StringTag(GainText(sg, w, t, u)) :
        sg \in Signs, w \in 0..MaxDb, t \in 0..9, u \in Units}
      \cup {StringTag(<<"-", "6", " ", "d", "B">>),
            StringTag(<<"-", "6", ".", "0", "d", "B">>),
            StringTag(<<"l", "o", "u", "d">>), StringTag(<<>>),
            OtherTag, NoTag}

\* The library cache of cache.rs: a tree of entries, a File with its song
\* or a Directory with its children by name.  A path is the sequence of
\* its components.
NoChildren == [n \in {} |-> 0]

File(song) == [kind |-> "File", song |-> song, children |-> NoChildren]

Directory(children) ==
    [kind |-> "Directory", song |-> "", children |-> children]

\* HashMap::insert that forgets the other keys.
Put_alone(children, name, entry) == [n \in {name} |-> entry]

\* HashMap::insert, and what entry(name).or_insert(..) leaves in the map.
Put(children, name, entry) ==
    [n \in DOMAIN children \cup {name} |->
        IF n = name THEN entry ELSE children[n]]

\* entry(name).or_insert(Directory { children: HashMap::new() }).
OrInsertDirectory(children, name) ==
    IF name \in DOMAIN children THEN children[name]
    ELSE Directory(NoChildren)

\* CacheEntry::insert_file: res is "Ok", "Err" (the entry is a File) or
\* "Panic" (drain(..1) on an empty path); entry is the entry afterwards.
RECURSIVE CacheEntry_insert_file(_, _, _)
CacheEntry_insert_file(e, path, song) ==
    IF e.kind = "File"
    THEN [res |-> "Err", entry |-> e]
    ELSE IF Len(path) = 1
         THEN [res |-> "Ok",
               entry |-> Directory(Put(e.children, path[1], File(song)))]
         ELSE IF path = <<>>
              THEN [res |-> "Panic", entry |-> e]
              ELSE LET r == CacheEntry_insert_file(
                               OrInsertDirectory(e.children, Head(path)),
                               Tail(path), song)
                   IN  [res |-> r.res,
                        entry |-> Directory(Put(e.children, Head(path),
                                                r.entry))]

\* Cache::insert_file: the root map afterwards and the result.
Cache_insert_file(root, path, song) ==
    IF path = <<>>
    THEN [res |-> "Err", root |-> root]
    ELSE LET r == CacheEntry_insert_file(OrInsertDirectory(root, Head(path)),
                                         Tail(path), song)
         IN  [res |-> r.res, root |-> Put(root, Head(path), r.entry)]

NoEntry == [res |-> "Ok", some |-> FALSE, entry |-> Directory(NoChildren)]
GetErr == [res |-> "Err", some |-> FALSE, entry |-> Directory(NoChildren)]

\* CacheEntry::get.
RECURSIVE CacheEntry_get(_, _)
CacheEntry_get(e, path) ==
    IF path = <<>>
    THEN [res |-> "Ok", some |-> TRUE, entry |-> e]
    ELSE IF e.kind = "File"
         THEN GetErr
         ELSE IF Head(path) \in DOMAIN e.children
              THEN CacheEntry_get(e.children[Head(path)], Tail(path))
              ELSE NoEntry

\* Cache::get.
Cache_get(root, path) ==
    IF path = <<>>
    THEN GetErr
    ELSE IF Head(path) \in DOMAIN root
         THEN CacheEntry_get(root[Head(path)], Tail(path))
         ELSE NoEntry

\* Names of path components, paths of up to MaxDepth components, the songs
\* of the files, and how many insertions a run makes.
MaxDepth == 3
MaxInserts == 2

Names == {"d", "f"}
CachePaths == UNION {[1..n -> Names] : n \in 1..MaxDepth}
Songs == {"s1", "s2"}

NoCalls ==
    [op |-> "", path |-> <<>>, song |-> "", res |-> "", inserted |-> {},
     n |-> 0]

\* The Player of player.rs, which main.rs shares behind a Mutex: playing,
\* current (the path of the current song, "" for None), next (the queued
\* songs) and, as history, whether the last call returned an Err.  A call
\* runs with the lock held, so it is one step.  send tells whether the
\* stream thread still takes commands, media whether the media controls
\* accept an update, found whether the cache and the decoder give the song.
MaxNext == 3

NewPlayer == [playing |-> FALSE, current |-> "", next |-> <<>>, err |-> FALSE]

Player_err(p) == [p EXCEPT !.err = TRUE]

\* play() with a current song: current.take(), send(Play)?, playing = true,
\* update_media_controls(..)?, and only then current is put back.
Player_resume(p, send, media) ==
    LET taken == [p EXCEPT !.current = ""]
    IN  IF ~send
        THEN Player_err(taken)
        ELSE IF ~media
             THEN Player_err([taken EXCEPT !.playing = TRUE])
             ELSE [p EXCEPT !.playing = TRUE]

Player_play(p, send, media) ==
    IF p.current # ""
    THEN Player_resume(p, send, media)
    ELSE IF p.next # <<>>
         THEN Player_resume([p EXCEPT !.current = Head(p.next),
                                      !.next = Tail(p.next)], send, media)
         ELSE p

Player_stop(p, media) ==
    LET q == [p EXCEPT !.current = "", !.playing = FALSE]
    IN  IF media THEN q ELSE Player_err(q)

Player_pause(p, send, media) ==
    IF p.current = ""
    THEN p
    ELSE IF ~send
         THEN Player_err(p)
         ELSE IF ~media
              THEN Player_err([p EXCEPT !.playing = FALSE])
              ELSE [p EXCEPT !.playing = FALSE]

Player_queue(p, path, found, send, media) ==
    IF ~found
    THEN Player_err(p)
    ELSE LET q == [p EXCEPT !.next = Append(@, path)]
         IN  IF q.current = "" THEN Player_play(q, send, media) ELSE q

Player_play_pause(p, send, media) ==
    IF p.playing THEN Player_pause(p, send, media)
    ELSE Player_play(p, send, media)

Player_clear(p, media) == Player_stop([p EXCEPT !.next = <<>>], media)

Player_skip(p, send, media) ==
    LET q == Player_stop(p, media)
    IN  IF q.err THEN q ELSE Player_play(q, send, media)

PlayerCalls == {"play", "pause", "play_pause", "stop", "skip", "clear", "queue"}

Player_call(p, call, path, found, send, media) ==
    CASE call = "play" -> Player_play(p, send, media)
      [] call = "pause" -> Player_pause(p, send, media)
      [] call = "play_pause" -> Player_play_pause(p, send, media)
      [] call = "stop" -> Player_stop(p, media)
      [] call = "skip" -> Player_skip(p, send, media)
      [] call = "clear" -> Player_clear(p, media)
      [] call = "queue" -> Player_queue(p, path, found, send, media)

----------------------------------------------------------------------------
Init ==
    /\ status = Stopped
    /\ queue = <<>>
    /\ stream = NoStream
    /\ nextSid = 1
    /\ chan = <<>>
    /\ actorPc = "recv"
    /\ facade = from_player(Stopped, <<>>)
    /\ deviceOk \in BOOLEAN
    /\ sends = 0
    /\ nextId = 1
    /\ sent = [p \in {"tx", "mc", "cb"} |-> <<>>]
    /\ applied = <<>>
    /\ lastErr = ""
    /\ peakStreams = 0
    /\ attempts = <<>>
    /\ failed = {}
    /\ started = <<>>
    /\ removed = {}
    /\ mediaPc = "attached"
    /\ tag = NoTag
    /\ gain_factor = 0
    /\ format_reader = [packets |-> <<>>, pos |-> 0]
    /\ pulled = NotPulled
    /\ mutexPlayer = NewPlayer
    /\ cache = NoChildren
    /\ cacheLog = NoCalls

----------------------------------------------------------------------------
\* Producers.

\* Indices a Dequeue may carry.
Indices == {0, 1, 2}

\* What the holder of the Sender returned by Player::run may send; id is
\* the identity an Enqueue gets when it is sent.
TxCommands(id) ==
    {Command(k, "", 0, 0, "tx") : k \in {"PlayPause", "Skip", "Stop", "Clear"}}
      \cup {Command("Enqueue", p, 0, id, "tx") : p \in Paths}
      \cup {Command("Dequeue", "", i, 0, "tx") : i \in Indices}

\* The events souvlaki hands to the attached handler.
MediaControlEvents ==
    {"Play", "Pause", "Toggle", "Next", "Previous", "Stop", "Seek", "SeekBy",
     "SetPosition", "OpenUri", "Raise", "Quit"}

\* The handler attached to the media controls: the command an event sends,
\* "" for an event that sends none.
MediaCommand(ev) ==
    CASE ev = "Play" -> "Play"
      [] ev = "Pause" -> "Pause"
      [] ev = "Toggle" -> "PlayPause"
      [] ev = "Next" -> "Skip"
      [] ev = "Stop" -> "Stop"
      [] OTHER -> ""

\* A channel that hands out the newest command first.
Send_front(c) ==
    IF actorPc = "dead"
    THEN UNCHANGED <<chan, sent>>
    ELSE /\ chan' = <<c>> \o chan
         /\ sent' = [sent EXCEPT ![c.from] = Append(@, c)]

\* mpsc::Sender::send: the command joins the back of the channel; once the
\* player thread is gone the receiver is dropped and the send fails.
Send(c) ==
    IF actorPc = "dead"
    THEN UNCHANGED <<chan, sent>>
    ELSE /\ chan' = Append(chan, c)
         /\ sent' = [sent EXCEPT ![c.from] = Append(@, c)]

\* A receiver that takes the newest command.
Recv_newest(ch) == [cmd |-> ch[Len(ch)], rest |-> SubSeq(ch, 1, Len(ch) - 1)]

\* mpsc::Receiver::recv: the oldest command leaves the channel.
Recv(ch) == [cmd |-> Head(ch), rest |-> Tail(ch)]

TxSend(c) ==
    /\ sends < MaxSends
    /\ sends' = sends + 1
    /\ Send(c)
    /\ nextId' = IF c.kind = "Enqueue" /\ actorPc # "dead"
                 THEN nextId + 1 ELSE nextId
    /\ UNCHANGED <<status, queue, stream, nextSid, actorPc, facade, deviceOk,
                   mediaPc, tag, gain_factor, applied, lastErr, peakStreams,
                   attempts, failed, started, removed, format_reader, pulled,
                   mutexPlayer, cache, cacheLog>>

MediaEvent(ev) ==
    /\ sends < MaxSends
    /\ IF MediaCommand(ev) = ""
       THEN UNCHANGED <<chan, sent, sends>>
       ELSE /\ sends' = sends + 1
            /\ Send(Command(MediaCommand(ev), "", 0, 0, "mc"))
    /\ UNCHANGED <<status, queue, stream, nextSid, actorPc, facade, deviceOk,
                   mediaPc, tag, gain_factor, nextId, applied, lastErr,
                   peakStreams, attempts, failed, started, removed,
                   format_reader, pulled, mutexPlayer, cache, cacheLog>>

\* The handler Player::attach_media_controls of player.rs attaches, the
\* one main.rs asks for: the arm an event takes.  "Ok" is Ok(()), "todo"
\* is todo!(), the others are the method of that file's Player it calls.
attach_media_controls(ev) ==
    CASE ev = "Play" -> "play"
      [] ev = "Pause" -> "pause"
      [] ev = "Toggle" -> "play_pause"
      [] ev = "Next" -> "skip"
      [] ev = "Stop" -> "stop"
      [] ev \in {"Seek", "SeekBy", "SetPosition"} -> "todo"
      [] OTHER -> "Ok"

\* An event handled by that handler, for the events whose arm calls no
\* method of the Player: todo!() panics inside the handler.
MediaEventDirect(ev) ==
    /\ mediaPc = "attached"
    /\ attach_media_controls(ev) \in {"Ok", "todo"}
    /\ mediaPc' = IF attach_media_controls(ev) = "todo"
                  THEN "panicked" ELSE mediaPc
    /\ UNCHANGED <<status, queue, stream, nextSid, chan, actorPc, facade,
                   deviceOk, sends, nextId, sent, applied, lastErr,
                   peakStreams, attempts, failed, started, removed, tag,
                   gain_factor, format_reader, pulled, mutexPlayer, cache,
                   cacheLog>>

----------------------------------------------------------------------------
\* The player thread: the loop of Player::run.

SeqSet(s) == {s[k] : k \in 1..Len(s)}

\* One command: receive it, run its handler, unwrap the result, publish
\* the facade.  A handler that destroys the Stream waits until no
\* invocation of its callback is running (the closure is freed with it);
\* a callback that panicked is not running.
ActorRecv ==
    /\ actorPc = "recv"
    /\ chan # <<>>
    /\ \E how \in FailModes :
       LET c == Recv(chan).cmd
           r == Handle(Me(how), c)
       IN  /\ r.dropped => stream.pc # "fill"
           /\ chan' = Recv(chan).rest
           /\ applied' = Append(applied, c)
           /\ status' = r.status
           /\ queue' = r.queue
           /\ stream' = r.stream
           /\ nextSid' = r.nsid
           /\ lastErr' = r.err
           /\ peakStreams' = Max(peakStreams, Max(r.peak, r.live))
           /\ attempts' = attempts \o r.tried
           /\ failed' = IF r.err # "" THEN failed \cup SeqSet(r.tried)
                        ELSE failed
           /\ started' = IF r.status.kind = "PlayingOrPaused"
                             /\ r.status.sid # status.sid
                          THEN Append(started, r.status.eid)
                          ELSE started
           /\ removed' = removed \cup
                  ((QueueIds(queue) \ QueueIds(r.queue)) \ SeqSet(r.tried))
           /\ IF r.err # ""
              THEN /\ actorPc' = "dead"
                   /\ facade' = facade
              ELSE /\ actorPc' = "set_playback"
                   /\ facade' = from_player(r.status, r.queue)
    /\ UNCHANGED <<deviceOk, mediaPc, tag, gain_factor, sends, nextId, sent,
                   format_reader, pulled, mutexPlayer, cache, cacheLog>>

\* The rest of the loop body: the metadata and the playback state go to
\* the media controls; for a playing facade this reads the played duration
\* under its read lock and unwraps the guard, which is poisoned when the
\* callback panicked holding the write lock.
ActorSetPlayback ==
    /\ actorPc = "set_playback"
    /\ facade.status.kind = "PlayingOrPaused" => stream.pc # "fill"
    /\ actorPc' = IF facade.status.kind = "PlayingOrPaused"
                     /\ stream.pc = "panicked"
                  THEN "dead" ELSE "recv"
    /\ UNCHANGED <<status, queue, stream, nextSid, chan, facade, deviceOk,
                   mediaPc, tag, gain_factor, sends, nextId, sent, applied,
                   lastErr, peakStreams, attempts, failed, started, removed,
                   format_reader, pulled, mutexPlayer, cache, cacheLog>>

----------------------------------------------------------------------------
\* The audio callback of create_playback.

StreamAlive == actorPc # "dead" /\ status.kind = "PlayingOrPaused"

SkipsWaiting == Len(SelectSeq(chan, LAMBDA c : c.from = "cb"))

\* One iteration of `while byte_count < dest.len()`: a pull from the
\* decoder when the buffer holds less than dest.len(), then the drain
\* into dest.  dec is what the decoder returns for a packet; its Err is
\* unwrapped, which panics the callback with the write lock held.  Skip is
\* sent between the pull and the drain: `late` keeps the largest backlog
\* that was still to be written when a Skip of this stream was sent.
FillStep(s, song, dec) ==
    LET pull == Len(s.buf) < DestLen
        d == decoder(Container(song), s.pos, dec)
        s1 == IF pull
              THEN [s EXCEPT !.buf = IF d.some THEN @ \o d.chunk ELSE @,
                             !.pos = d.pos,
                             !.eos = @ \/ d.eos,
                             !.late = IF d.eos THEN Max(@, Len(s.buf)) ELSE @]
              ELSE s
        n == Min(DestLen - s1.bc, Len(s1.buf))
    IN  IF pull /\ d.err
        THEN [s EXCEPT !.pc = "panicked", !.derr = TRUE]
        ELSE [s1 EXCEPT !.buf = SubSeq(@, n + 1, Len(@)),
                        !.bc = @ + n,
                        !.out = @ \o [k \in 1..n |->
                                         s1.buf[k] * SongGain(song)]]

\* Whether the iteration FillStep makes meets the end of the stream (and
\* sends Skip).
MeetsEos(s, song) == Len(s.buf) < DestLen /\ s.pos >= Packets(song)

\* The fill loop from state s on, up to its exit, to the first iteration
\* that meets the end of the stream, or to the panic.
RECURSIVE FillLoop(_, _, _)
FillLoop(s, song, dec) ==
    IF s.pc = "panicked"
    THEN s
    ELSE IF s.bc >= DestLen
         THEN [s EXCEPT !.pc = "idle", !.bc = 0, !.dur = @ + DestLen]
         ELSE IF MeetsEos(s, song)
              THEN FillStep(s, song, dec)
              ELSE FillLoop(FillStep(s, song, dec), song, dec)

SkipOf(s) == Command("Skip", "", 0, s.sid, "cb")

\* A paused callback that throws the backlog away.
Silence_drops_backlog(s) == [s EXCEPT !.sil = DestLen, !.buf = <<>>]

\* A paused callback that also counts the buffer as played.
Silence_counts(s) == [s EXCEPT !.sil = DestLen, !.dur = @ + DestLen]

\* The paused branch: dest.fill(0.0) and return.
Silence(s) == [s EXCEPT !.sil = DestLen]

\* The device asks for DestLen samples.  Paused: silence, nothing else.
\* Otherwise the callback takes the write lock of the played duration and
\* runs its fill loop; when the loop exits the duration of the buffer is
\* added and the lock released.  An iteration that meets the end of the
\* stream sends Skip and stays in the loop.
CbInvoke ==
    /\ StreamAlive
    /\ stream.pc = "idle"
    /\ \E dec \in DecodeResults :
       LET s == FillLoop([stream EXCEPT !.pc = "fill", !.bc = 0, !.sil = 0],
                         status.song, dec)
       IN  IF stream.paused
           THEN /\ stream' = Silence(stream)
                /\ UNCHANGED <<chan, sent>>
           ELSE /\ stream' = s
                /\ chan' = IF s.pc = "fill" THEN Append(chan, SkipOf(s))
                           ELSE chan
                /\ sent' = IF s.pc = "fill"
                           THEN [sent EXCEPT !["cb"] = Append(@, SkipOf(s))]
                           ELSE sent
    /\ UNCHANGED <<status, queue, nextSid, actorPc, facade, deviceOk, mediaPc,
                   tag, gain_factor, sends, nextId, applied, lastErr,
                   peakStreams, attempts, failed, started, removed,
                   format_reader, pulled, mutexPlayer, cache, cacheLog>>

\* The loop after the end of the stream: the buffer is empty and
\* byte_count stays below dest.len(), so every further iteration pulls,
\* finds the end of the stream again and sends Skip again.  The loop never
\* ends; MaxSkips only caps how many of its Skips the channel holds.
CbSpin ==
    /\ StreamAlive
    /\ stream.pc = "fill"
    /\ SkipsWaiting < MaxSkips
    /\ stream' = FillStep(stream, status.song, "Ok")
    /\ chan' = Append(chan, SkipOf(stream))
    /\ sent' = [sent EXCEPT !["cb"] = Append(@, SkipOf(stream))]
    /\ UNCHANGED <<status, queue, nextSid, actorPc, facade, deviceOk, mediaPc,
                   tag, gain_factor, sends, nextId, applied, lastErr,
                   peakStreams, attempts, failed, started, removed,
                   format_reader, pulled, mutexPlayer, cache, cacheLog>>

----------------------------------------------------------------------------
Next ==
    \/ \E c \in TxCommands(nextId) : TxSend(c)
    \/ \E ev \in MediaControlEvents : MediaEvent(ev)
    \/ ActorRecv
    \/ ActorSetPlayback
    \/ CbInvoke
    \/ CbSpin

Spec == Init /\ [][Next]_vars

\* The player thread and the callback are threads of their own: a step
\* of theirs that stays possible is taken.
FairSpec ==
    /\ Spec
    /\ WF_vars(ActorRecv)
    /\ WF_vars(ActorSetPlayback)
    /\ WF_vars(CbInvoke)
    /\ WF_vars(CbSpin)

\* The media controls alone: the events of the system and the two
\* handlers the source has for them.
MediaNext ==
    \/ \E ev \in MediaControlEvents : MediaEvent(ev)
    \/ \E ev \in MediaControlEvents : MediaEventDirect(ev)

MediaSpec == Init /\ [][MediaNext]_vars

\* Song::load alone: a file with one of the tags is read once.
GainInit ==
    /\ tag \in Tags
    /\ gain_factor = 0
    /\ status = Stopped
    /\ queue = <<>>
    /\ stream = NoStream
    /\ nextSid = 1
    /\ chan = <<>>
    /\ actorPc = "recv"
    /\ facade = from_player(Stopped, <<>>)
    /\ deviceOk = TRUE
    /\ sends = 0
    /\ nextId = 1
    /\ sent = [p \in {"tx", "mc", "cb"} |-> <<>>]
    /\ applied = <<>>
    /\ lastErr = ""
    /\ peakStreams = 0
    /\ attempts = <<>>
    /\ failed = {}
    /\ started = <<>>
    /\ removed = {}
    /\ mediaPc = "attached"
    /\ format_reader = [packets |-> <<>>, pos |-> 0]
    /\ pulled = NotPulled
    /\ mutexPlayer = NewPlayer
    /\ cache = NoChildren
    /\ cacheLog = NoCalls

Song_load ==
    /\ gain_factor = 0
    /\ gain_factor' = replay_gain(tag)
    /\ UNCHANGED <<status, queue, stream, nextSid, chan, actorPc, facade,
                   deviceOk, sends, nextId, sent, applied, lastErr,
                   peakStreams, attempts, failed, started, removed, mediaPc,
                   tag, format_reader, pulled, mutexPlayer, cache, cacheLog>>

GainSpec == GainInit /\ [][Song_load]_vars

----------------------------------------------------------------------------
\* A player that has already handled a few commands.

\* The handlers applied one at a time, each to completion, to the initial
\* player; a handler that fails ends the run.
\* The decoder closure on its own: a file of up to MaxPackets packets, each
\* of the selected track or of another one, is opened and pulled packet
\* by packet, the reader or the codec failing or not at each packet.
MaxPackets == 4

PacketAt(k, track) == [track |-> track, samples |-> <<2 * k - 1, 2 * k>>]

Containers ==
    UNION {{[k \in 1..n |-> PacketAt(k, t[k])] :
               t \in [1..n -> {TrackId, OtherTrack}]} : n \in 0..MaxPackets}

LoaderInit ==
    /\ format_reader \in [packets : Containers, pos : {0}]
    /\ pulled = NotPulled
    /\ status = Stopped
    /\ queue = <<>>
    /\ stream = NoStream
    /\ nextSid = 1
    /\ chan = <<>>
    /\ actorPc = "recv"
    /\ facade = from_player(Stopped, <<>>)
    /\ deviceOk = TRUE
    /\ sends = 0
    /\ nextId = 1
    /\ sent = [p \in {"tx", "mc", "cb"} |-> <<>>]
    /\ applied = <<>>
    /\ lastErr = ""
    /\ peakStreams = 0
    /\ attempts = <<>>
    /\ failed = {}
    /\ started = <<>>
    /\ removed = {}
    /\ mediaPc = "attached"
    /\ tag = NoTag
    /\ gain_factor = 0
    /\ mutexPlayer = NewPlayer
    /\ cache = NoChildren
    /\ cacheLog = NoCalls

\* One call of the closure LoadedSong::load returns as `decoder`.
Pull ==
    /\ \E dec \in DecodeResults :
         LET d == decoder(format_reader.packets, format_reader.pos, dec)
         IN  /\ pulled' = d
             /\ format_reader' = [format_reader EXCEPT !.pos = d.pos]
    /\ UNCHANGED <<status, queue, stream, nextSid, chan, actorPc, facade,
                   deviceOk, sends, nextId, sent, applied, lastErr,
                   peakStreams, attempts, failed, started, removed, mediaPc,
                   tag, gain_factor, mutexPlayer, cache, cacheLog>>

LoaderSpec == LoaderInit /\ [][Pull]_vars

\* A thread locks the Player and calls one of its methods.
MutexCall ==
    /\ \E call \in PlayerCalls, path \in {"a", "b"},
          found \in BOOLEAN, send \in BOOLEAN, media \in BOOLEAN :
         /\ call = "queue" => Len(mutexPlayer.next) < MaxNext
         /\ mutexPlayer' =
              Player_call([mutexPlayer EXCEPT !.err = FALSE], call, path,
                          found, send, media)
    /\ UNCHANGED <<status, queue, stream, nextSid, chan, actorPc, facade,
                   deviceOk, sends, nextId, sent, applied, lastErr,
                   peakStreams, attempts, failed, started, removed, mediaPc,
                   tag, gain_factor, format_reader, pulled, cache, cacheLog>>

MutexSpec == Init /\ [][MutexCall]_vars

\* build_from_config inserts a file it found.  A panic ends the program.
CacheInsert ==
    /\ cacheLog.res # "Panic"
    /\ cacheLog.n < MaxInserts
    /\ \E p \in CachePaths, s \in Songs :
         LET r == Cache_insert_file(cache, p, s)
         IN  /\ cache' = r.root
             /\ cacheLog' =
                  [op |-> "insert_file", path |-> p, song |-> s,
                   res |-> r.res,
                   inserted |-> IF r.res = "Ok"
                                THEN cacheLog.inserted \cup {p}
                                ELSE cacheLog.inserted,
                   n |-> cacheLog.n + 1]
    /\ UNCHANGED <<status, queue, stream, nextSid, chan, actorPc, facade,
                   deviceOk, sends, nextId, sent, applied, lastErr,
                   peakStreams, attempts, failed, started, removed, mediaPc,
                   tag, gain_factor, format_reader, pulled, mutexPlayer>>

\* A reader looks a path up.
CacheLookup ==
    /\ cacheLog.res # "Panic"
    /\ \E p \in CachePaths \cup {<<>>} :
         cacheLog' = [cacheLog EXCEPT !.op = "get", !.path = <<>>,
                                      !.song = "",
                                      !.res = Cache_get(cache, p).res]
    /\ UNCHANGED <<status, queue, stream, nextSid, chan, actorPc, facade,
                   deviceOk, sends, nextId, sent, applied, lastErr,
                   peakStreams, attempts, failed, started, removed, mediaPc,
                   tag, gain_factor, format_reader, pulled, mutexPlayer,
                   cache>>

CacheNext == CacheInsert \/ CacheLookup

CacheInit == Init /\ deviceOk

CacheSpec == CacheInit /\ [][CacheNext]_vars

RECURSIVE Replay(_, _)
Replay(r, cmds) ==
    IF cmds = <<>> \/ r.err # ""
    THEN r
    ELSE Replay(Handle(Fields(r.status, r.queue, r.stream, r.nsid, r.dev,
                              r.how), Head(cmds)),
                Tail(cmds))

\* Command sequences a Sender holder may have sent to a fresh player: a
\* song playing with two entries queued behind it, the first of them not
\* playable; a player stopped with one entry left in its queue; and a song
\* playing with a playable entry queued behind it.
WarmUps ==
    {<<Command("Enqueue", "a", 0, 1, "tx"), Command("Enqueue", "x", 0, 2, "tx"),
       Command("Enqueue", "b", 0, 3, "tx")>>,
     <<Command("Enqueue", "a", 0, 1, "tx"), Command("Enqueue", "b", 0, 2, "tx"),
       Command("Stop", "", 0, 0, "tx")>>,
     <<Command("Enqueue", "a", 0, 1, "tx"),
       Command("Enqueue", "b", 0, 2, "tx")>>}

\* The state of the program once the player thread has handled one of the
\* sequences of WarmUps, the output device building and the callback not
\* yet invoked.  Each sequence starts exactly one song, its first entry.
\* The cap on sends counts the sequence as one send.
QueuedInit ==
    \E w \in WarmUps :
        LET r == Replay(Fields(Stopped, <<>>, NoStream, 1, TRUE, "None"), w)
        IN  /\ status = r.status
            /\ queue = r.queue
            /\ stream = r.stream
            /\ nextSid = r.nsid
            /\ chan = <<>>
            /\ actorPc = "recv"
            /\ facade = from_player(r.status, r.queue)
            /\ deviceOk = TRUE
            /\ sends = 1
            /\ nextId = 1 + Len(SelectSeq(w, LAMBDA c : c.kind = "Enqueue"))
            /\ sent = [p \in {"tx", "mc", "cb"} |->
                          IF p = "tx" THEN w ELSE <<>>]
            /\ applied = w
            /\ lastErr = r.err
            /\ peakStreams = 1
            /\ attempts = <<1>>
            /\ failed = {}
            /\ started = <<1>>
            /\ removed = {}
            /\ mediaPc = "attached"
            /\ tag = NoTag
            /\ gain_factor = 0
            /\ format_reader = [packets |-> <<>>, pos |-> 0]
            /\ pulled = NotPulled
            /\ mutexPlayer = NewPlayer
            /\ cache = NoChildren
            /\ cacheLog = NoCalls

QueuedSpec == QueuedInit /\ [][Next]_vars

----------------------------------------------------------------------------
\* Properties.

Producers == {"tx", "mc", "cb"}
From(s, p) == SelectSeq(s, LAMBDA c : c.from = p)
Kinds(s) == [k \in 1..Len(s) |-> s[k].kind]
Last(s) == s[Len(s)]
Playable(path) == path \in {"a", "b"}

\* The command the player thread receives next, and the step in which it
\* receives and handles a command of the given kind.
Cmd == Recv(chan).cmd

Applies(kind) ==
    /\ actorPc = "recv"
    /\ chan # <<>>
    /\ Cmd.kind = kind
    /\ applied' = Append(applied, Cmd)

\* C1: at most one Stream value is alive at any moment, also inside a
\* handler, so a stream is built only when the one before it is destroyed;
\* the stream's cells belong to the current song exactly while the status
\* is PlayingOrPaused.
C1_AtMostOneStream ==
    /\ peakStreams <= 1
    /\ status.kind = "Stopped" => stream = NoStream
    /\ status.kind = "PlayingOrPaused" =>
           stream.sid = status.sid /\ status.sid = nextSid - 1

\* A second stream is alive after the first was destroyed.
C1_Witness ==
    status.kind = "PlayingOrPaused" /\ nextSid = 3 /\ peakStreams = 1

\* C2: the player's status, pause flag and queue are those of the commands
\* received so far applied one after the other, and the order of receipt
\* keeps every producer's order of sending.
C2_Serializable ==
    /\ LET r == Replay(Fields(Stopped, <<>>, NoStream, 1, deviceOk, "None"),
                       applied)
       IN  /\ r.status = status
           /\ r.queue = queue
           /\ r.stream.paused = stream.paused
    /\ \A p \in Producers : From(applied, p) \o From(chan, p) = sent[p]

\* Commands of two producers were applied interleaved.
C2_Witness ==
    /\ Len(applied) = 3
    /\ applied[1].from = "tx"
    /\ applied[2].from = "mc"
    /\ applied[3].from = "tx"
    /\ status.kind = "PlayingOrPaused"

\* C3: Enqueue(a), Enqueue(b), Play applied to the initial player, with a
\* loading and the device building, leave a current and the queue <<b>>.
C3_EnqueueEnqueuePlay ==
    (/\ Len(applied) = 3
     /\ Kinds(applied) = <<"Enqueue", "Enqueue", "Play">>
     /\ Playable(applied[1].path)
     /\ deviceOk)
    => /\ status.kind = "PlayingOrPaused"
       /\ status.song = applied[1].path
       /\ status.eid = applied[1].id
       /\ queue = <<[path |-> applied[2].path, id |-> applied[2].id]>>

C3_Witness ==
    /\ Len(applied) = 3
    /\ Kinds(applied) = <<"Enqueue", "Enqueue", "Play">>
    /\ status.song = "a"
    /\ QueuePaths(queue) = <<"b">>

\* C4: entries become current in the order their Enqueue commands were
\* sent: when an entry becomes current, every entry enqueued before it has
\* become current earlier or was removed by Dequeue or Clear.
C4_EnqueueOrderIsPlayOrder ==
    \A k \in 1..Len(started) :
        \A i \in 1..(started[k] - 1) :
            i \in removed \/ \E j \in 1..(k - 1) : started[j] = i

\* Two entries became current, one after the other.
C4_Witness == Len(started) = 2 /\ removed = {} /\ started[2] = 2

\* C5: Enqueue(p) handled by a Stopped player with an empty queue, p
\* loading and the device building, leaves p current on a new stream and
\* the queue empty.
C5_EnqueueOnStoppedStarts ==
    [][(/\ Applies("Enqueue")
        /\ status.kind = "Stopped"
        /\ queue = <<>>
        /\ Playable(Cmd.path)
        /\ deviceOk)
       => /\ status' = PlayingOrPaused(Cmd.path, Cmd.id, nextSid)
          /\ stream' = NewStream(nextSid)
          /\ queue' = <<>>
          /\ lastErr' = ""]_vars

\* An Enqueue on a player stopped by an earlier command started its song.
C5_Witness ==
    /\ Len(applied) = 3
    /\ Last(applied).kind = "Enqueue"
    /\ applied[2].kind \in {"Stop", "Clear"}
    /\ status.kind = "PlayingOrPaused"
    /\ status.eid = Last(applied).id
    /\ queue = <<>>

\* Streams the bounds allow.
StreamIds == 1..MaxSends

\* The decoder of stream sid has reported the end of the stream and every
\* decoded sample is written.
EndOfStream(sid) ==
    StreamAlive /\ stream.sid = sid /\ stream.eos /\ stream.buf = <<>>

\* The player thread has handled a Skip that the callback of stream sid sent.
SkipApplied(sid) ==
    \E k \in 1..Len(applied) : applied[k].from = "cb" /\ applied[k].id = sid

\* C6: once a stream is at its end with nothing left to write, the Skip
\* its callback sends is eventually handled by the player thread, and with
\* an empty queue the status is then Stopped.  A run in which the player
\* thread panics meanwhile (C8, C9) is not held against the claim.
C6_EndOfStreamSkipApplied ==
    \A sid \in StreamIds :
        EndOfStream(sid) ~>
            \/ SkipApplied(sid) /\ status.sid # sid
            \/ actorPc = "dead"

\* No Skip of a callback has been handled (what holds instead).
C6_NoCallbackSkipApplied == \A sid \in StreamIds : ~SkipApplied(sid)

\* C7: a Dequeue whose index is not below the queue's length gives the
\* error "No song at index" and leaves the queue, the status, the
\* stream's cells and the published snapshot as they were.
C7_DequeueOutOfRange ==
    [][(Applies("Dequeue") /\ Cmd.index >= Len(queue))
       => /\ lastErr' = "No song at index"
          /\ queue' = queue
          /\ status' = status
          /\ stream' = stream
          /\ facade' = facade]_vars

\* An out-of-range Dequeue was handled while a song played and an entry
\* was queued.
C7_Witness ==
    /\ applied # <<>>
    /\ Last(applied).kind = "Dequeue"
    /\ Last(applied).index >= Len(queue)
    /\ lastErr = "No song at index"
    /\ queue # <<>>
    /\ status.kind = "PlayingOrPaused"

\* C8: after an out-of-range Dequeue the command loop is still running.
C8_DequeueErrorNonFatal ==
    lastErr = "No song at index" => actorPc # "dead"

LoadErrors ==
    {"Song not found in cache", "Song is not a file", "Failed to load song"}

\* C9: after a song failed to load the status is Stopped and the command
\* loop is still running.
C9_LoadErrorNonFatal ==
    lastErr \in LoadErrors => status = Stopped /\ actorPc # "dead"

\* C10: an entry whose load failed is no longer in the queue, and no entry
\* is popped for a second time.
C10_FailedEntryDropped ==
    /\ failed \cap QueueIds(queue) = {}
    /\ \A i, j \in 1..Len(attempts) : attempts[i] = attempts[j] => i = j

\* An entry failed to load after another one had played.
C10_Witness ==
    /\ Len(attempts) = 2
    /\ failed = {attempts[2]}
    /\ lastErr \in LoadErrors

\* C11: once an entry has failed to start, the player is not left without
\* a current song while a playable entry is still queued.
C11_FailureAdvances ==
    (failed # {} /\ \E k \in 1..Len(queue) : Playable(queue[k].path))
        => status.kind = "PlayingOrPaused"

\* C12: after the output device failed to open or to build the stream, the
\* entry that was to start is still in the queue, the status is Stopped
\* and the command loop is still running.
C12_DeviceErrorKeepsQueue ==
    lastErr = "Failed to get default output device"
        => /\ failed \subseteq QueueIds(queue)
           /\ status = Stopped
           /\ actorPc # "dead"

\* C13: when the decoder returned an error to the callback, the callback
\* has sent Skip and has returned; it has not panicked.
C13_DecodeErrorSendsSkip ==
    stream.derr
        => /\ stream.pc = "idle"
           /\ \E k \in 1..Len(sent["cb"]) : sent["cb"][k].id = stream.sid

\* C14: Pause handled by a player that is already paused leaves the pause
\* flag set and the song, the stream with its played duration, and the
\* queue as they were.
C14_PauseIdempotent ==
    [][(/\ Applies("Pause")
        /\ status.kind = "PlayingOrPaused"
        /\ stream.paused)
       => /\ stream'.paused
          /\ stream' = stream
          /\ status' = status
          /\ queue' = queue
          /\ lastErr' = ""]_vars

\* Pause was handled twice in a row after the song had played for a while.
C14_Witness ==
    /\ Kinds(applied) = <<"Enqueue", "Pause", "Pause">>
    /\ status.kind = "PlayingOrPaused"
    /\ stream.paused
    /\ stream.dur > 0

\* A step of the audio callback: the stream's cells change and the player
\* thread has handled nothing.
CallbackStep == stream' # stream /\ applied' = applied

\* C15: an invocation of the callback that finds the pause flag set zeroes
\* all of dest and changes nothing else: not the decoder's position, not
\* the backlog, not the played duration; it sends no command.
C15_PausedCallbackSilent ==
    [][(stream.paused /\ stream.pc = "idle" /\ CallbackStep)
       => /\ stream'.sil = DestLen
          /\ stream' = [stream EXCEPT !.sil = DestLen]
          /\ chan' = chan
          /\ sent' = sent]_vars

\* A paused callback ran on a song that had played and has a backlog.
C15_Witness ==
    /\ StreamAlive
    /\ stream.paused
    /\ stream.sil = DestLen
    /\ stream.dur > 0
    /\ stream.buf # <<>>

\* The facade f shows the status st (its variant, its song, the cells of
\* its stream) and the queue q.
Shows(f, st, q) ==
    /\ f.status.kind = st.kind
    /\ f.status.song = st.song
    /\ f.status.sid = st.sid
    /\ f.queue = QueuePaths(q)

\* C16: between two commands the published facade shows the player's
\* status and queue.
C16_FacadeMatchesPlayer == Shows(facade, status, queue)

\* C17: the published facade shows the status and the queue the player had
\* when it had completed one of the commands received so far, or the
\* initial ones; never the status of one command with the queue of another.
C17_FacadeIsOneSnapshot ==
    \E k \in 0..Len(applied) :
        LET r == Replay(Fields(Stopped, <<>>, NoStream, 1, deviceOk, "None"),
                        SubSeq(applied, 1, k))
        IN  r.err = "" /\ Shows(facade, r.status, r.queue)

\* A facade published by the third command, which changed the status and
\* the queue together.
C17_Witness ==
    /\ Kinds(applied) = <<"Enqueue", "Enqueue", "Skip">>
    /\ actorPc = "set_playback"
    /\ facade.status.song = "b"
    /\ facade.queue = <<>>

\* The events documented as unimplemented.
Unimplemented == {"Seek", "SeekBy", "SetPosition", "Raise", "Quit"}

\* C18: the media handler sends only Play, Pause, PlayPause, Skip and
\* Stop, one command per event at most; no event changes the player's
\* state or crashes the handler, an unimplemented one in particular.
C18_MediaEventsHarmless ==
    /\ \A k \in 1..Len(sent["mc"]) :
           sent["mc"][k].kind \in {"Play", "Pause", "PlayPause", "Skip", "Stop"}
    /\ Len(sent["mc"]) = sends
    /\ \A ev \in Unimplemented : MediaCommand(ev) = ""
    /\ status = Stopped /\ queue = <<>>
    /\ mediaPc = "attached"

\* The player as it was before the command it received last.
BeforeLast ==
    Replay(Fields(Stopped, <<>>, NoStream, 1, deviceOk, "None"),
           SubSeq(applied, 1, Len(applied) - 1))

\* C19: after Enqueue(p) was handled by a Stopped player, everything
\* queued being playable and the device building, p is the current song,
\* whatever the queue held.
C19_EnqueueOnStoppedPlaysIt ==
    (/\ applied # <<>>
     /\ Last(applied).kind = "Enqueue"
     /\ Playable(Last(applied).path)
     /\ deviceOk
     /\ BeforeLast.err = ""
     /\ BeforeLast.status.kind = "Stopped"
     /\ \A k \in 1..Len(BeforeLast.queue) : Playable(BeforeLast.queue[k].path))
    => /\ status.kind = "PlayingOrPaused"
       /\ status.eid = Last(applied).id

\* Whether a is within tol thousandths of b.
Near(a, b, tol) == 1000 * (a - b) <= tol * b /\ 1000 * (b - a) <= tol * b

\* C20: the gain factor of a loaded song is 10^(dB/20) for the number dB
\* its track-gain tag writes, with or without a trailing " dB": it is 1
\* for 0 dB, 10 for 20 dB, 1/10 for -20 dB, and about 0.501 for
\* "-6.0 dB".
C20_GainFactor ==
    gain_factor # 0 =>
        /\ \A sg \in Signs, w \in 0..MaxDb, t \in 0..9, u \in Units :
               tag = StringTag(GainText(sg, w, t, u)) =>
                   gain_factor = powf10(IF sg = <<"-">> THEN 0 - (10 * w + t)
                                        ELSE 10 * w + t)
        /\ \A u \in Units :
               /\ tag = StringTag(GainText(<<>>, 0, 0, u)) =>
                      gain_factor = GainScale
               /\ tag = StringTag(GainText(<<>>, 20, 0, u)) =>
                      Near(gain_factor, 10 * GainScale, 2)
               /\ tag = StringTag(GainText(<<"-">>, 20, 0, u)) =>
                      Near(10 * gain_factor, GainScale, 2)
        /\ tag = StringTag(<<"-", "6", ".", "0", " ", "d", "B">>) =>
               Near(gain_factor, 5012, 2)

\* The file tagged "-6.0 dB" is loaded.
C20_Witness ==
    /\ tag = StringTag(<<"-", "6", ".", "0", " ", "d", "B">>)
    /\ gain_factor # 0
    /\ gain_factor < GainScale

\* Tags that carry no number: no tag, a value that is no string, and
\* strings that are not a decimal number with or without " dB".
NoNumberTags ==
    {NoTag, OtherTag, StringTag(<<>>), StringTag(<<"l", "o", "u", "d">>),
     StringTag(<<"-", "6", ".", "0", "d", "B">>)}

\* C21: a song whose track-gain tag is absent, is no string or does not
\* parse is loaded all the same, with a gain factor of exactly 1.
C21_GainDefaultsToOne ==
    (gain_factor # 0 /\ tag \in NoNumberTags) => gain_factor = GainScale

\* A file whose tag is a word was loaded.
C21_Witness ==
    /\ tag = StringTag(<<"l", "o", "u", "d">>)
    /\ gain_factor = GainScale

\* C22: Skip leaves the status and the queue that Stop followed by Play
\* leave.  On an empty queue the player is Stopped without a stream; on a
\* queue whose front entry loads, the device building, that entry is the
\* current song on a new stream and the rest of the queue keeps its order.
C22_SkipIsStopThenPlay ==
    [][Applies("Skip") =>
         LET sp == Handle(Handle(Me("None"), Command("Stop", "", 0, 0, "tx")),
                          Command("Play", "", 0, 0, "mc"))
         IN  /\ status' = sp.status
             /\ queue' = sp.queue
             /\ queue = <<>> => status' = Stopped /\ stream' = NoStream
             /\ (queue # <<>> /\ Playable(Head(queue).path) /\ deviceOk) =>
                  /\ status' = PlayingOrPaused(Head(queue).path,
                                               Head(queue).id, nextSid)
                  /\ stream' = NewStream(nextSid)
                  /\ status'.sid # status.sid
                  /\ queue' = Tail(queue)]_vars

\* A Skip during the first song started the second one.
C22_Witness ==
    /\ Len(applied) = 3
    /\ Last(applied).kind = "Skip"
    /\ Len(started) = 2
    /\ status.kind = "PlayingOrPaused"
    /\ status.song = "b"

\* C23: Play handled in PlayingOrPaused only clears the pause flag: the
\* current song and its stream stay, the played duration is not reset and
\* nothing is popped from the queue.
C23_PlayWhilePlayingResumes ==
    [][(Applies("Play") /\ status.kind = "PlayingOrPaused") =>
         /\ status' = status
         /\ queue' = queue
         /\ stream' = [stream EXCEPT !.paused = FALSE]
         /\ nextSid' = nextSid
         /\ attempts' = attempts
         /\ started' = started]_vars

\* A paused song that had played for a while was resumed by Play.
C23_Witness ==
    /\ Kinds(applied) = <<"Enqueue", "Pause", "Play">>
    /\ status.kind = "PlayingOrPaused"
    /\ ~stream.paused
    /\ stream.dur > 0

\* C24: PlayPause handled in PlayingOrPaused flips the pause flag and
\* changes neither the current song nor the queue; handled right after
\* another PlayPause it puts the flag back to what it was before the two.
C24_PlayPauseFlips ==
    [][(Applies("PlayPause") /\ status.kind = "PlayingOrPaused") =>
         /\ stream' = [stream EXCEPT !.paused = ~stream.paused]
         /\ status' = status
         /\ queue' = queue
         /\ (applied # <<>> /\ Last(applied).kind = "PlayPause") =>
              stream'.paused = BeforeLast.stream.paused]_vars

\* Two PlayPause commands in a row on a playing song: it plays again.
C24_Witness ==
    /\ Kinds(applied) = <<"Enqueue", "PlayPause", "PlayPause">>
    /\ status.kind = "PlayingOrPaused"
    /\ ~stream.paused

\* C25: Stop leaves the player Stopped without a stream and the queue as
\* it was, in content and order; handled by a Stopped player it changes
\* nothing of the player or of its facade.
C25_StopKeepsQueue ==
    [][Applies("Stop") =>
         /\ status' = Stopped
         /\ stream' = NoStream
         /\ queue' = queue
         /\ lastErr' = ""
         /\ nextSid' = nextSid
         /\ status = Stopped => stream' = stream /\ facade' = facade]_vars

\* Stop during a song with another one queued: Stopped with a queue.
C25_Witness ==
    /\ applied # <<>>
    /\ Last(applied).kind = "Stop"
    /\ status = Stopped
    /\ QueuePaths(queue) = <<"b">>
    /\ Len(started) = 1

\* C26: Clear leaves the queue empty and the player Stopped without a
\* stream, and it starts no song: nothing is loaded and no stream is made.
C26_ClearStopsAndEmpties ==
    [][Applies("Clear") =>
         /\ queue' = <<>>
         /\ status' = Stopped
         /\ stream' = NoStream
         /\ lastErr' = ""
         /\ attempts' = attempts
         /\ started' = started
         /\ nextSid' = nextSid]_vars

\* Clear during a song with another one queued.
C26_Witness ==
    /\ Kinds(applied) = <<"Enqueue", "Enqueue", "Clear">>
    /\ Len(started) = 1
    /\ removed # {}
    /\ status = Stopped
    /\ queue = <<>>

\* C27: Dequeue(i) with i below the queue length removes the entry at
\* index i and no other: the entries before it stay where they are, the
\* ones after it move up by one, and the status, the current song and its
\* stream are untouched.
C27_DequeueRemovesOne ==
    [][(Applies("Dequeue") /\ Cmd.index < Len(queue)) =>
         /\ Len(queue') = Len(queue) - 1
         /\ \A k \in 1..Len(queue') :
              queue'[k] = IF k <= Cmd.index THEN queue[k] ELSE queue[k + 1]
         /\ status' = status
         /\ stream' = stream
         /\ lastErr' = ""]_vars

\* Dequeue(0) on a queue of two during a song: the second entry is left.
C27_Witness ==
    /\ Last(applied).kind = "Dequeue"
    /\ Last(applied).index = 0
    /\ QueuePaths(queue) = <<"b">>
    /\ removed # {}
    /\ status.kind = "PlayingOrPaused"
    /\ status.song = "a"

\* C28: the queue changes only when the player thread handles Enqueue (one
\* entry more at the back), Dequeue (one entry less), Clear (none left) or
\* attempts a Play in Stopped (the front entry popped: Play, Skip, and
\* Enqueue on a Stopped player, which appends first).  Pause and PlayPause
\* never change the queue, and handled by a Stopped player they change
\* nothing of the player or of its facade.
C28_QueueChangesOnlyBy ==
    [][/\ queue' # queue =>
            /\ actorPc = "recv" /\ chan # <<>>
            /\ applied' = Append(applied, Cmd)
            /\ LET e == [path |-> Cmd.path, id |-> Cmd.id]
               IN  \/ /\ Cmd.kind = "Enqueue"
                      /\ status.kind = "PlayingOrPaused"
                      /\ queue' = Append(queue, e)
                   \/ /\ Cmd.kind = "Enqueue"
                      /\ status = Stopped
                      /\ queue' = Tail(Append(queue, e))
                   \/ /\ Cmd.kind = "Dequeue"
                      /\ Cmd.index < Len(queue)
                      /\ queue' = RemoveAt(queue, Cmd.index)
                   \/ /\ Cmd.kind = "Clear"
                      /\ queue' = <<>>
                   \/ /\ Cmd.kind = "Play" /\ status = Stopped
                      /\ queue' = Tail(queue)
                   \/ /\ Cmd.kind = "Skip"
                      /\ queue' = Tail(queue)
       /\ (Applies("Pause") \/ Applies("PlayPause")) =>
            /\ queue' = queue
            /\ status = Stopped =>
                 /\ status' = status
                 /\ stream' = stream
                 /\ nextSid' = nextSid
                 /\ lastErr' = ""
                 /\ facade' = facade]_vars

\* PlayPause handled by a Stopped player whose queue holds an entry.
C28_Witness ==
    /\ Kinds(applied) = <<"Enqueue", "Enqueue", "Stop", "PlayPause">>
    /\ status = Stopped
    /\ QueuePaths(queue) = <<"b">>

\* C29: the callback sends Skip only after the decoder has reported the
\* end of the stream and with an empty backlog: every sample decoded
\* before the end of the stream has been written to an output buffer when
\* a Skip of that stream is sent.
C29_SkipAfterBacklogWritten ==
    \A k \in 1..Len(sent["cb"]) :
        sent["cb"][k].id = stream.sid => stream.eos /\ stream.late = 0

\* C30: every invocation of the audio callback returns: a callback that is
\* inside its fill loop leaves it, whatever the decoder hands it (sample
\* chunks, the end of the stream over an empty or a non-empty backlog, an
\* error).
C30_CallbackReturns == (stream.pc = "fill") ~> (stream.pc # "fill")

\* C31: the played duration of a stream equals the samples its unpaused
\* callbacks have written to output buffers (both counted in samples, the
\* division by channels * sample_rate left out); a callback that meets the
\* end of the stream adds the duration of what it wrote and no more.
C31_DurationIsWritten ==
    StreamAlive => stream.dur = Len(stream.out)

\* C32: each call of the decoder closure reads exactly one packet while
\* packets remain and returns (Some(samples), false) for a packet of the
\* selected track, (None, false) for a packet of another track, (None,
\* true) at the end of the container, where it reads nothing, and an error
\* value when the read or the decode fails.
C32_PullReadsOnePacket ==
    [][pulled' # pulled \/ format_reader' # format_reader =>
         LET p == format_reader.pos
             ps == format_reader.packets
         IN  /\ format_reader'.packets = ps
             /\ p < Len(ps) =>
                  /\ format_reader'.pos = p + 1
                  /\ ~pulled'.eos
                  /\ \/ pulled'.err /\ ~pulled'.some
                     \/ /\ ~pulled'.err
                        /\ ps[p + 1].track = TrackId
                        /\ pulled'.some
                        /\ pulled'.chunk = ps[p + 1].samples
                     \/ /\ ~pulled'.err
                        /\ ps[p + 1].track # TrackId
                        /\ ~pulled'.some
             /\ p >= Len(ps) =>
                  /\ format_reader'.pos = p
                  /\ pulled'.eos /\ ~pulled'.some /\ ~pulled'.err]_vars

\* A file of three packets was pulled to its end: the last result before
\* the end was the skipped packet of another track.
C32_Witness ==
    /\ Len(format_reader.packets) = 3
    /\ format_reader.pos = 2
    /\ format_reader.packets[2].track = OtherTrack
    /\ ~pulled.some /\ ~pulled.eos /\ ~pulled.err

\* The Skips of the callback of stream sid that the player thread has
\* handled so far.
CallbackSkips(sid) ==
    {k \in 1..Len(applied) :
        applied[k].kind = "Skip" /\ applied[k].from = "cb"
        /\ applied[k].id = sid}

\* C33: a Skip the callback of a stream sent at the end of the stream ends
\* that stream and no later one, under every interleaving: it is handled
\* while that stream is the current one, at most one Skip per stream is
\* handled, and the one Skip is handled in the end, so that the natural end
\* of a song advances the queue by exactly one entry.  A run in which the
\* player thread panics meanwhile is not held against the claim.
C33_CallbackSkipEndsItsStream ==
    /\ [][(Applies("Skip") /\ Cmd.from = "cb") =>
            /\ status.kind = "PlayingOrPaused"
            /\ status.sid = Cmd.id
            /\ CallbackSkips(Cmd.id) = {}]_vars
    /\ \A sid \in StreamIds :
         (\E k \in 1..Len(sent["cb"]) : sent["cb"][k].id = sid)
           ~> (Cardinality(CallbackSkips(sid)) = 1 \/ actorPc = "dead")

\* What the decoder has produced from the first pos packets: the samples
\* of the packets of the selected track, in order.
RECURSIVE Decoded(_, _)
Decoded(packets, pos) ==
    IF pos = 0
    THEN <<>>
    ELSE Decoded(packets, pos - 1)
           \o (IF packets[pos].track = TrackId THEN packets[pos].samples
               ELSE <<>>)

Gained(samples, g) == [k \in 1..Len(samples) |-> samples[k] * g]

\* C34: what the unpaused callbacks of a stream have written, in order,
\* followed by the backlog, is what the decoder has produced so far, each
\* written sample multiplied by the gain factor of the song: the written
\* samples are a prefix of the decoded ones, none dropped, doubled or out
\* of place, and a paused callback loses no sample of the backlog.
C34_WrittenIsDecodedPrefix ==
    StreamAlive =>
        LET g == SongGain(status.song)
            all == Decoded(Container(status.song), Packets(status.song))
        IN  /\ stream.out \o Gained(stream.buf, g)
                 = Gained(Decoded(Container(status.song), stream.pos), g)
            /\ Len(stream.out) <= Len(all)
            /\ stream.out = Gained(SubSeq(all, 1, Len(stream.out)), g)

\* A paused callback ran between two buffers of a song: part is written,
\* part waits in the backlog.
C34_Witness ==
    /\ StreamAlive
    /\ stream.paused
    /\ stream.sil = DestLen
    /\ stream.out = <<2, 4>>
    /\ Len(stream.buf) = 1

\* C35: a stream that is made starts with the pause flag false, the
\* played duration zero and an empty backlog, in cells of its own: no
\* stream before it and no facade published before it holds them.  So a
\* Skip handled while the player is paused starts the next song unpaused,
\* and the facade published for the song before never shows the progress
\* of the new one.
C35_NewStreamFreshCells ==
    [][(Len(attempts') > Len(attempts) /\ lastErr' = "") =>
         /\ status'.kind = "PlayingOrPaused"
         /\ stream' = NewStream(status'.sid)
         /\ ~stream'.paused /\ stream'.dur = 0
         /\ stream'.sid > stream.sid
         /\ stream'.sid > Len(started)
         /\ facade.status.sid # stream'.sid]_vars

\* A Skip during a paused song that had played started the next song.
C35_Witness ==
    /\ Len(applied) = 4
    /\ applied[3].kind \in {"Pause", "PlayPause"}
    /\ applied[4].kind = "Skip"
    /\ status.kind = "PlayingOrPaused"
    /\ status.song = "b"
    /\ ~stream.paused
    /\ stream.dur = 0

\* C36: as long as a stream lives its played duration never decreases: it
\* grows only in a callback invocation that is not paused, and a command
\* that keeps the stream leaves it as it is.
C36_DurationMonotonic ==
    [][(stream.sid # 0 /\ stream'.sid = stream.sid) =>
         /\ stream'.dur >= stream.dur
         /\ stream'.dur > stream.dur => CallbackStep /\ ~stream.paused
         /\ applied' # applied => stream'.dur = stream.dur]_vars

\* A song that had played for a while was paused: the duration stays.
C36_Witness ==
    /\ applied # <<>>
    /\ Last(applied).kind = "Pause"
    /\ status.kind = "PlayingOrPaused"
    /\ stream.paused
    /\ stream.dur > 0

\* Commands of the Sender holder and of the media keys, sent and handled.
UserSent == Len(sent["tx"]) + Len(sent["mc"])
UserApplied == Len(SelectSeq(applied, LAMBDA c : c.from # "cb"))

\* C37: every command sent is handled in the end and the player thread
\* comes back to its receive, the facade published, whatever the callback
\* does meanwhile: the player thread, the callback and the locks they take
\* never wait for each other for ever.  A run in which a handler fails or
\* the callback panics (the player thread is dead) is not held against the
\* claim.
C37_EveryCommandApplied ==
    \A n \in 1..MaxSends :
        (UserSent >= n) ~>
            \/ UserApplied >= n /\ actorPc = "recv"
            \/ actorPc = "dead"

\* All that was sent to the player so far are Enqueue commands of files
\* that load, and the output device builds.
OnlyEnqueues ==
    /\ deviceOk
    /\ sent["mc"] = <<>>
    /\ \A k \in 1..Len(sent["tx"]) :
         sent["tx"][k].kind = "Enqueue" /\ Playable(sent["tx"][k].path)

\* C38: when k songs that load are enqueued on a Stopped player and no
\* other command is sent, each of them becomes the current song, in the
\* order of the Enqueues, and the player ends up Stopped with an empty
\* queue.  A run in which the decoder fails is not held against the claim.
C38_QueuePlaysToTheEnd ==
    \A k \in 1..MaxSends :
        (OnlyEnqueues /\ UserSent = k) ~>
            \/ ~OnlyEnqueues
            \/ UserSent # k
            \/ stream.derr
            \/ /\ started = [i \in 1..k |-> i]
               /\ status = Stopped
               /\ queue = <<>>

\* C39: in the Player of player.rs, after any sequence of calls, calls that
\* return an error included, playing = true implies that there is a
\* current song.
C39_PlayingHasCurrent ==
    mutexPlayer.playing => mutexPlayer.current # ""

IsPrefix(p, q) == Len(p) <= Len(q) /\ SubSeq(q, 1, Len(p)) = p

\* C40: after insert_file(p, s) has succeeded, get(p) gives a File entry
\* with the song s and get of every proper prefix of p gives a Directory
\* entry; get(q) gives what it gave before for every path q inserted
\* earlier that is not p and does not have p as a prefix; and a get leaves
\* the cache as it is.
C40_InsertThenGet ==
    [][/\ (cacheLog' # cacheLog /\ cacheLog'.op = "insert_file"
           /\ cacheLog'.res = "Ok") =>
            LET p == cacheLog'.path
            IN  /\ Cache_get(cache', p) =
                     [res |-> "Ok", some |-> TRUE,
                      entry |-> File(cacheLog'.song)]
                /\ \A k \in 1..(Len(p) - 1) :
                     LET g == Cache_get(cache', SubSeq(p, 1, k))
                     IN  g.res = "Ok" /\ g.some /\ g.entry.kind = "Directory"
                /\ \A q \in cacheLog.inserted :
                     (q # p /\ ~IsPrefix(p, q)) =>
                        Cache_get(cache', q) = Cache_get(cache, q)
       /\ (cacheLog' # cacheLog /\ cacheLog'.op = "get") =>
            cache' = cache]_vars

\* A file deep in a directory and a file beside that directory are in the
\* cache.
C40_Witness ==
    /\ cacheLog.op = "insert_file"
    /\ cacheLog.res = "Ok"
    /\ cacheLog.inserted = {<<"d", "d", "f">>, <<"d", "f">>}
    /\ Cache_get(cache, <<"d", "d", "f">>).entry.kind = "File"

====
